---- MODULE Spec2Model ----
(***************************************************************************)
(* Device authorization and skill-execution relay of the TalkBack agent    *)
(* analysis server (src/server): DeviceRegistry, DeviceSettingsManager and *)
(* SkillQueue, plus the HTTP transport that guards mutating endpoints and  *)
(* answers the settings poll.                                              *)
(*                                                                         *)
(* Strings that the code draws at random (secrets.token_hex, uuid4) are    *)
(* modelled by the naturals 1, 2, 3, ... in the order they are drawn: the  *)
(* n-th token minted is the token n.  The token 0 is the empty string.     *)
(* Clock readings (time.time()) are modelled by the ordinal of the event   *)
(* that takes them.                                                        *)
(***************************************************************************)
EXTENDS Integers, Sequences, FiniteSets, TLC

\* ----------------------------------------------------------------- bounds
\* Number of device records created in one run (register with a new serial).
MaxDevices == 2
\* Number of tokens minted in one run (approve of a not-yet-approved device).
MaxTokens == 2
\* Largest settings revision reached in one run.
MaxRevision == 1
\* Number of execute calls started in one run.
MaxRequests == 2
\* Number of approve requests that can be in flight at once.
MaxHandlers == 2

\* ------------------------------------------------------------- constants
\* Python's None (Optional[str] = None, dict.get's default).
None == -1
\* The empty string as a token value (an empty AGENT_AUTH_TOKEN, an empty header).
EmptyToken == 0
\* A pre-shared token that token_hex never produces ("env-secret-token").
EnvSecret == 99

DeviceIds == 1..MaxDevices
MintedTokens == 1..MaxTokens
\* Values a client can put in the X-Agent-Token header (None: no header).
HeaderValues == {None, EmptyToken, EnvSecret} \cup MintedTokens
\* Values the AGENT_AUTH_TOKEN environment variable can give _static_token:
\* unset, empty, or a pre-shared secret.
StaticValues == {None, EmptyToken, EnvSecret}
DeviceNames == {"Pixel", "Pixel Retry"}
DeviceSerials == {"", "SN123"}
\* Device ids a client can name in a request, 0 being an id no device has.
RequestedIds == {0} \cup DeviceIds
\* Request ids a device can name in a report or a claim, 0 being unknown.
RequestIds == 0..MaxRequests
Handlers == 1..MaxHandlers
SkillNames == {"tap", "swipe"}
\* What a device reports: SkillResultReport's success, message and data.
Reports == {[success |-> TRUE, message |-> "done", data |-> 1],
            [success |-> FALSE, message |-> "failed", data |-> 0]}

VARIABLES
    devices,        \* DeviceRegistry._devices: device_id -> DeviceInfo
    tokens,         \* DeviceRegistry._tokens: token -> device_id
    static_token,   \* DeviceRegistry._static_token
    next_device,    \* number of device ids drawn so far (secrets.token_hex(4))
    minted,         \* number of tokens drawn so far (secrets.token_hex(16))
    settings,       \* DeviceSettingsManager._settings
    pending,        \* SkillQueue._pending: request_id -> PendingSkill
    futures,        \* SkillQueue._futures: the request ids that have a waiter
    history,        \* SkillQueue._history
    calls,          \* the execute coroutines: request_id -> its future and position
    next_request,   \* number of request ids drawn so far (uuid4)
    delivered,      \* request_id -> how often get_pending or claim returned it
    handlers,       \* the approve requests in flight: handler -> its position
    resp            \* the answer to the last request

registry_vars == <<devices, tokens, static_token, next_device, minted>>
queue_vars == <<pending, futures, history, calls, next_request, delivered>>
vars == <<registry_vars, settings, queue_vars, handlers, resp>>

\* ---------------------------------------------------------- DeviceRegistry

\* DeviceInfo(device_id=..., status=PENDING, ...) as register builds it.
DeviceInfo(id, name, serial) ==
    [device_id |-> id, device_name |-> name, device_serial |-> serial,
     status |-> "pending", auth_token |-> None,
     registered_at |-> id, approved_at |-> None]

\* Python truthiness of an Optional[str]: None and "" are falsy.
Truthy(s) == s # None /\ s # EmptyToken

\* Mutant: a flag that is set by the first approval and never reset.
auth_enabled_sticky ==
    static_token # None \/ minted > 0

auth_enabled ==
    static_token # None \/ \E d \in DOMAIN devices : devices[d].status = "approved"

\* Mutant: only the static token is looked at, the reverse map is forgotten.
validate_token_static_only(token) ==
    Truthy(static_token) /\ token = static_token

\* Mutant: only the reverse map is looked at, the static token is forgotten.
validate_token_map_only(token) ==
    token \in DOMAIN tokens
validate_token(token) ==
    IF Truthy(static_token) /\ token = static_token
    THEN TRUE
    ELSE token \in DOMAIN tokens

\* Mutant: the status test is inverted (PENDING for APPROVED).
get_token_for_device_pending(device_id) ==
    IF device_id \in DOMAIN devices /\ devices[device_id].status = "pending"
    THEN devices[device_id].auth_token
    ELSE None

\* Mutant: the static token is handed out where there is no device token.
get_token_for_device_fallback(device_id) ==
    IF device_id \in DOMAIN devices /\ devices[device_id].status = "approved"
    THEN devices[device_id].auth_token
    ELSE static_token

get_token_for_device(device_id) ==
    IF device_id \in DOMAIN devices /\ devices[device_id].status = "approved"
    THEN devices[device_id].auth_token
    ELSE None

get_device_by_token(token) ==
    IF token \in DOMAIN tokens /\ tokens[token] \in DOMAIN devices
    THEN tokens[token]
    ELSE None

\* The record register returns for a serial already known (the first match).
SerialMatch(serial) ==
    {d \in DOMAIN devices : devices[d].device_serial = serial}

\* f with the key k removed (del d[k], dict.pop).
Without(f, k) == [x \in DOMAIN f \ {k} |-> f[x]]
\* f with f[k] = v added or replaced (d[k] = v).
With(f, k, v) == [x \in DOMAIN f \cup {k} |-> IF x = k THEN v ELSE f[x]]

\* A uniform shape for the answer to a request.
Resp(op, arg, status, body) == [op |-> op, arg |-> arg, status |-> status, body |-> body]

\* Mutant: a registration with a known serial starts the record over, as
\* pending, under the same id and the new name.
register_resets(name, serial) ==
    IF serial # "" /\ SerialMatch(serial) # {}
    THEN LET d == CHOOSE x \in SerialMatch(serial) :
                      \A y \in SerialMatch(serial) : x <= y
         IN /\ devices' = [devices EXCEPT ![d] = DeviceInfo(d, name, serial)]
            /\ resp' = Resp("register", <<name, serial>>, 200,
                            [device_id |-> d, status |-> "pending"])
            /\ UNCHANGED <<tokens, static_token, next_device, minted>>
    ELSE /\ next_device < MaxDevices
         /\ LET id == next_device + 1
            IN /\ devices' = With(devices, id, DeviceInfo(id, name, serial))
               /\ next_device' = id
               /\ resp' = Resp("register", <<name, serial>>, 200,
                               [device_id |-> id, status |-> "pending"])
         /\ UNCHANGED <<tokens, static_token, minted>>
\* Mutant: the serial is matched also when it is empty.
register_dedups_empty(name, serial) ==
    IF SerialMatch(serial) # {}
    THEN LET d == CHOOSE x \in SerialMatch(serial) :
                      \A y \in SerialMatch(serial) : x <= y
         IN /\ resp' = Resp("register", <<name, serial>>, 200,
                            [device_id |-> d, status |-> devices[d].status])
            /\ UNCHANGED registry_vars
    ELSE /\ next_device < MaxDevices
         /\ LET id == next_device + 1
            IN /\ devices' = With(devices, id, DeviceInfo(id, name, serial))
               /\ next_device' = id
               /\ resp' = Resp("register", <<name, serial>>, 200,
                               [device_id |-> id, status |-> "pending"])
         /\ UNCHANGED <<tokens, static_token, minted>>
register(name, serial) ==
    IF serial # "" /\ SerialMatch(serial) # {}
    THEN LET d == CHOOSE x \in SerialMatch(serial) :
                      \A y \in SerialMatch(serial) : x <= y
         IN /\ resp' = Resp("register", <<name, serial>>, 200,
                            [device_id |-> d, status |-> devices[d].status])
            /\ UNCHANGED registry_vars
    ELSE /\ next_device < MaxDevices
         /\ LET id == next_device + 1
            IN /\ devices' = With(devices, id, DeviceInfo(id, name, serial))
               /\ next_device' = id
               /\ resp' = Resp("register", <<name, serial>>, 200,
                               [device_id |-> id, status |-> "pending"])
         /\ UNCHANGED <<tokens, static_token, minted>>

\* secrets.token_hex(16): a token no earlier call returned.
token_hex_16 == minted + 1

\* Mutant: approving an approved device rotates its token.
approve_rotates(device_id) ==
    IF device_id \notin DOMAIN devices
    THEN /\ resp' = Resp("approve", device_id, 404, None)
         /\ UNCHANGED registry_vars
    ELSE /\ minted < MaxTokens
         /\ LET token == token_hex_16
                old == devices[device_id].auth_token
            IN /\ devices' = [devices EXCEPT ![device_id].status = "approved",
                                             ![device_id].auth_token = token,
                                             ![device_id].approved_at = token]
               /\ tokens' = With(IF old \in DOMAIN tokens THEN Without(tokens, old)
                                 ELSE tokens, token, device_id)
               /\ minted' = token
               /\ resp' = Resp("approve", device_id, 200,
                               [device_id |-> device_id, status |-> "approved",
                                auth_token |-> token])
         /\ UNCHANGED <<static_token, next_device>>
\* Mutant: a device approved before gets its earlier token back.
approve_reissues(device_id) ==
    IF device_id \notin DOMAIN devices
    THEN /\ resp' = Resp("approve", device_id, 404, None)
         /\ UNCHANGED registry_vars
    ELSE IF devices[device_id].status = "approved"
            /\ Truthy(devices[device_id].auth_token)
    THEN /\ resp' = Resp("approve", device_id, 200,
                         [device_id |-> device_id, status |-> "approved",
                          auth_token |-> devices[device_id].auth_token])
         /\ UNCHANGED registry_vars
    ELSE /\ minted < MaxTokens
         /\ LET token == IF devices[device_id].approved_at # None
                         THEN devices[device_id].approved_at ELSE token_hex_16
            IN /\ devices' = [devices EXCEPT ![device_id].status = "approved",
                                             ![device_id].auth_token = token,
                                             ![device_id].approved_at = token]
               /\ tokens' = With(tokens, token, device_id)
               /\ minted' = IF token > minted THEN token ELSE minted
               /\ resp' = Resp("approve", device_id, 200,
                               [device_id |-> device_id, status |-> "approved",
                                auth_token |-> token])
         /\ UNCHANGED <<static_token, next_device>>
\* Mutant: the token is drawn before the device is looked up.
approve_mints_first(device_id) ==
    IF device_id \notin DOMAIN devices
    THEN /\ minted < MaxTokens
         /\ minted' = token_hex_16
         /\ resp' = Resp("approve", device_id, 404, None)
         /\ UNCHANGED <<devices, tokens, static_token, next_device>>
    ELSE IF devices[device_id].status = "approved"
            /\ Truthy(devices[device_id].auth_token)
    THEN /\ resp' = Resp("approve", device_id, 200,
                         [device_id |-> device_id, status |-> "approved",
                          auth_token |-> devices[device_id].auth_token])
         /\ UNCHANGED registry_vars
    ELSE /\ minted < MaxTokens
         /\ LET token == token_hex_16
            IN /\ devices' = [devices EXCEPT ![device_id].status = "approved",
                                             ![device_id].auth_token = token,
                                             ![device_id].approved_at = token]
               /\ tokens' = With(tokens, token, device_id)
               /\ minted' = token
               /\ resp' = Resp("approve", device_id, 200,
                               [device_id |-> device_id, status |-> "approved",
                                auth_token |-> token])
         /\ UNCHANGED <<static_token, next_device>>
approve(device_id) ==
    IF device_id \notin DOMAIN devices
    THEN /\ resp' = Resp("approve", device_id, 404, None)
         /\ UNCHANGED registry_vars
    ELSE IF devices[device_id].status = "approved"
            /\ Truthy(devices[device_id].auth_token)
    THEN /\ resp' = Resp("approve", device_id, 200,
                         [device_id |-> device_id, status |-> "approved",
                          auth_token |-> devices[device_id].auth_token])
         /\ UNCHANGED registry_vars
    ELSE /\ minted < MaxTokens
         /\ LET token == token_hex_16
            IN /\ devices' = [devices EXCEPT ![device_id].status = "approved",
                                             ![device_id].auth_token = token,
                                             ![device_id].approved_at = token]
               /\ tokens' = With(tokens, token, device_id)
               /\ minted' = token
               /\ resp' = Resp("approve", device_id, 200,
                               [device_id |-> device_id, status |-> "approved",
                                auth_token |-> token])
         /\ UNCHANGED <<static_token, next_device>>

\* Mutant: the status is set, the token field is not cleared.
reject_keeps_token(device_id) ==
    IF device_id \notin DOMAIN devices
    THEN /\ resp' = Resp("reject", device_id, 404, None)
         /\ UNCHANGED registry_vars
    ELSE /\ tokens' = IF Truthy(devices[device_id].auth_token)
                         /\ devices[device_id].auth_token \in DOMAIN tokens
                      THEN Without(tokens, devices[device_id].auth_token)
                      ELSE tokens
         /\ devices' = [devices EXCEPT ![device_id].status = "rejected"]
         /\ resp' = Resp("reject", device_id, 200,
                         [device_id |-> device_id, status |-> "rejected",
                          auth_token |-> None])
         /\ UNCHANGED <<static_token, next_device, minted>>

\* Mutant: the reverse mapping of the revoked token is not deleted.
reject_keeps_mapping(device_id) ==
    IF device_id \notin DOMAIN devices
    THEN /\ resp' = Resp("reject", device_id, 404, None)
         /\ UNCHANGED registry_vars
    ELSE /\ devices' = [devices EXCEPT ![device_id].status = "rejected",
                                       ![device_id].auth_token = None]
         /\ resp' = Resp("reject", device_id, 200,
                         [device_id |-> device_id, status |-> "rejected",
                          auth_token |-> None])
         /\ UNCHANGED <<tokens, static_token, next_device, minted>>

\* Mutant: a rejection empties the reverse map.
reject_revokes_all(device_id) ==
    IF device_id \notin DOMAIN devices
    THEN /\ resp' = Resp("reject", device_id, 404, None)
         /\ UNCHANGED registry_vars
    ELSE /\ tokens' = <<>>
         /\ devices' = [devices EXCEPT ![device_id].status = "rejected",
                                       ![device_id].auth_token = None]
         /\ resp' = Resp("reject", device_id, 200,
                         [device_id |-> device_id, status |-> "rejected",
                          auth_token |-> None])
         /\ UNCHANGED <<static_token, next_device, minted>>
reject(device_id) ==
    IF device_id \notin DOMAIN devices
    THEN /\ resp' = Resp("reject", device_id, 404, None)
         /\ UNCHANGED registry_vars
    ELSE /\ tokens' = IF Truthy(devices[device_id].auth_token)
                         /\ devices[device_id].auth_token \in DOMAIN tokens
                      THEN Without(tokens, devices[device_id].auth_token)
                      ELSE tokens
         /\ devices' = [devices EXCEPT ![device_id].status = "rejected",
                                       ![device_id].auth_token = None]
         /\ resp' = Resp("reject", device_id, 200,
                         [device_id |-> device_id, status |-> "rejected",
                          auth_token |-> None])
         /\ UNCHANGED <<static_token, next_device, minted>>

\* Mutant: the reset drops the device records and keeps the reverse map.
clear_keeps_tokens ==
    /\ devices' = <<>>
    /\ resp' = Resp("clear", None, 200, None)
    /\ UNCHANGED <<tokens, static_token, next_device, minted>>

clear ==
    /\ devices' = <<>>
    /\ tokens' = <<>>
    /\ resp' = Resp("clear", None, 200, None)
    /\ UNCHANGED <<static_token, next_device, minted>>

\* ---------------------------------------------------- DeviceSettingsManager

\* Fields of DeviceSettings that update may set (two of the eight are
\* modelled): every field of the blob except revision and last_modified.
SettableFields == {"tts_suppressed", "buffer_size"}

\* The fields update never sets: they are derived.
DerivedFields == {"revision", "last_modified"}

\* Attributes every pydantic BaseModel has that are not fields (copy, dict,
\* json, ...): hasattr is true for them, setattr raises ValueError.
ModelAttributes == {"copy"}

\* hasattr(self._settings, key).
HasAttr(key) == key \in SettableFields \cup DerivedFields \cup ModelAttributes

\* The for loop of update over kwargs, a sequence of <<key, value>> in the
\* order of the call: the blob so far, whether a field changed, and whether
\* setattr raised (which ends the call before the revision is bumped).
RECURSIVE update_loop(_, _, _)
update_loop(blob, kwargs, changed) ==
    IF kwargs = <<>>
    THEN [blob |-> blob, changed |-> changed, raised |-> FALSE]
    ELSE LET key == Head(kwargs)[1]
             value == Head(kwargs)[2]
         IN IF HasAttr(key) /\ key \notin DerivedFields
            THEN IF key \in ModelAttributes
                 THEN [blob |-> blob, changed |-> changed, raised |-> TRUE]
                 ELSE IF blob[key] # value
                 THEN update_loop([blob EXCEPT ![key] = value], Tail(kwargs), TRUE)
                 ELSE update_loop(blob, Tail(kwargs), changed)
            ELSE update_loop(blob, Tail(kwargs), changed)

\* update(**kwargs): the blob it leaves, and whether it raised.
update(kwargs) ==
    LET r == update_loop(settings, kwargs, FALSE)
    IN [blob |-> IF r.changed /\ ~r.raised
                 THEN [r.blob EXCEPT !.revision = @ + 1]
                 ELSE r.blob,
        raised |-> r.raised]

\* Optional[DeviceSettings]: the empty sequence is None, <<blob>> is a blob.
NoSettings == <<>>

\* Mutant: the comparison is not strict.
get_if_newer_or_equal(client_revision) ==
    IF settings.revision >= client_revision THEN <<settings>> ELSE NoSettings
get_if_newer(client_revision) ==
    IF settings.revision > client_revision THEN <<settings>> ELSE NoSettings

\* --------------------------------------------------------- HTTP transport

\* The auth guard of the mutating endpoints: open while auth is not enabled,
\* otherwise the X-Agent-Token header must be present and validate.
AuthAllowed(header) ==
    \/ ~auth_enabled
    \/ header # None /\ validate_token(header)

\* POST /analyze: guarded; the analysis itself changes no state of the core.
Analyze(header) ==
    /\ resp' = Resp("analyze", header, IF AuthAllowed(header) THEN 200 ELSE 401, None)
    /\ UNCHANGED <<registry_vars, settings, queue_vars, handlers>>

\* Mutant: the update is applied before the guard is asked.
PatchSettingsUnguarded(header, kwargs) ==
    /\ update(kwargs).blob.revision <= MaxRevision
    /\ settings' = update(kwargs).blob
    /\ resp' = IF ~AuthAllowed(header)
               THEN Resp("patch_settings", header, 401, None)
               ELSE IF update(kwargs).raised
               THEN Resp("patch_settings", header, 500, None)
               ELSE Resp("patch_settings", header, 200, update(kwargs).blob)
    /\ UNCHANGED <<registry_vars, queue_vars, handlers>>
\* PATCH /settings: guarded; applies update(**body).
PatchSettings(header, kwargs) ==
    IF AuthAllowed(header)
    THEN /\ update(kwargs).blob.revision <= MaxRevision
         /\ settings' = update(kwargs).blob
         /\ resp' = IF update(kwargs).raised
                    THEN Resp("patch_settings", header, 500, None)
                    ELSE Resp("patch_settings", header, 200, update(kwargs).blob)
         /\ UNCHANGED <<registry_vars, queue_vars, handlers>>
    ELSE /\ resp' = Resp("patch_settings", header, 401, None)
         /\ UNCHANGED <<registry_vars, settings, queue_vars, handlers>>

\* GET /settings?device_id=&revision=: open.  Without a revision the blob is
\* returned; with one, get_if_newer decides.  The token of an approved device
\* is attached whenever a device id is given, and turns the not-modified
\* answer into a 200.
SettingsPoll(device_id, revision) ==
    LET blob == IF revision = None THEN <<settings>> ELSE get_if_newer(revision)
        token == IF device_id = None THEN None ELSE get_token_for_device(device_id)
    IN /\ resp' = IF blob = NoSettings /\ token = None
                  THEN Resp("settings_poll", <<device_id, revision>>, 304, None)
                  ELSE Resp("settings_poll", <<device_id, revision>>, 200,
                            [settings |-> settings, auth_token |-> token])
       /\ UNCHANGED <<registry_vars, settings, queue_vars, handlers>>

\* GET /device/pending and GET /device/all: open.
get_pending_devices == {d \in DOMAIN devices : devices[d].status = "pending"}
get_approved == {d \in DOMAIN devices : devices[d].status = "approved"}
get_all == DOMAIN devices

DeviceList(which) ==
    /\ resp' = Resp(which, None, 200,
                    IF which = "device_pending" THEN get_pending_devices ELSE get_all)
    /\ UNCHANGED <<registry_vars, settings, queue_vars, handlers>>

\* ---------------------------------------------------------------- SkillQueue

\* The coroutine of one execute call, suspended in asyncio.wait_for: fut is the
\* state of its future ("pending", "result" or "cancelled"), result the report
\* that resolved it, pc the coroutine's position: "awaiting"; "timeout" once
\* the timer has cancelled the future and TimeoutError is on its way;
\* "returned" with response set; "cancelled" when CancelledError left execute.
Call(skill_name) ==
    [skill_name |-> skill_name, fut |-> "pending", result |-> None,
     pc |-> "awaiting", response |-> None]

\* SkillExecResponse as execute builds it from a report.
ResultResponse(request_id, skill_name, result) ==
    [request_id |-> request_id, skill_name |-> skill_name,
     success |-> result.success, message |-> result.message, data |-> result.data]

\* SkillExecResponse as execute builds it on TimeoutError.
TimeoutResponse(request_id, skill_name) ==
    [request_id |-> request_id, skill_name |-> skill_name,
     success |-> FALSE, message |-> "Timeout", data |-> None]

\* execute up to its await: draws the request id, queues the command, creates
\* the waiter.
execute_start(skill_name) ==
    /\ next_request < MaxRequests
    /\ LET request_id == next_request + 1
       IN /\ next_request' = request_id
          /\ pending' = With(pending, request_id,
                             [request_id |-> request_id, skill_name |-> skill_name])
          /\ futures' = futures \cup {request_id}
          /\ calls' = With(calls, request_id, Call(skill_name))
          /\ delivered' = With(delivered, request_id, 0)
          /\ resp' = Resp("execute", skill_name, 0, request_id)
    /\ UNCHANGED history

\* Mutant: the timer is armed only while the command is still queued.
timer_fires_if_queued(request_id) ==
    /\ request_id \in DOMAIN calls
    /\ request_id \in DOMAIN pending
    /\ calls[request_id].pc = "awaiting"
    /\ calls[request_id].fut = "pending"
    /\ calls' = [calls EXCEPT ![request_id].fut = "cancelled",
                              ![request_id].pc = "timeout"]
    /\ resp' = Resp("timer", request_id, 0, None)
    /\ UNCHANGED <<pending, futures, history, next_request, delivered>>
\* The timer of wait_for fires before a result is set: the future is cancelled
\* and the coroutine will resume with TimeoutError.
timer_fires(request_id) ==
    /\ request_id \in DOMAIN calls
    /\ calls[request_id].pc = "awaiting"
    /\ calls[request_id].fut = "pending"
    /\ calls' = [calls EXCEPT ![request_id].fut = "cancelled",
                              ![request_id].pc = "timeout"]
    /\ resp' = Resp("timer", request_id, 0, None)
    /\ UNCHANGED <<pending, futures, history, next_request, delivered>>

\* Mutant: the timeout branch purges the pending command but not the waiter.
execute_timeout_leaves_waiter(request_id) ==
    /\ request_id \in DOMAIN calls
    /\ calls[request_id].pc = "timeout"
    /\ LET response == TimeoutResponse(request_id, calls[request_id].skill_name)
       IN /\ pending' = Without(pending, request_id)
          /\ history' = Append(history, response)
          /\ calls' = [calls EXCEPT ![request_id].pc = "returned",
                                    ![request_id].response = response]
          /\ resp' = Resp("execute_return", request_id, 200, response)
    /\ UNCHANGED <<futures, next_request, delivered>>

\* Mutant: the timeout branch returns its response without logging it.
execute_timeout_unlogged(request_id) ==
    /\ request_id \in DOMAIN calls
    /\ calls[request_id].pc = "timeout"
    /\ LET response == TimeoutResponse(request_id, calls[request_id].skill_name)
       IN /\ pending' = Without(pending, request_id)
          /\ futures' = futures \ {request_id}
          /\ calls' = [calls EXCEPT ![request_id].pc = "returned",
                                    ![request_id].response = response]
          /\ resp' = Resp("execute_return", request_id, 200, response)
    /\ UNCHANGED <<history, next_request, delivered>>
\* execute resumes in its except asyncio.TimeoutError branch.
execute_timeout(request_id) ==
    /\ request_id \in DOMAIN calls
    /\ calls[request_id].pc = "timeout"
    /\ LET response == TimeoutResponse(request_id, calls[request_id].skill_name)
       IN /\ pending' = Without(pending, request_id)
          /\ futures' = futures \ {request_id}
          /\ history' = Append(history, response)
          /\ calls' = [calls EXCEPT ![request_id].pc = "returned",
                                    ![request_id].response = response]
          /\ resp' = Resp("execute_return", request_id, 200, response)
    /\ UNCHANGED <<next_request, delivered>>

\* execute resumes with the reported result.
execute_result(request_id) ==
    /\ request_id \in DOMAIN calls
    /\ calls[request_id].pc = "awaiting"
    /\ calls[request_id].fut = "result"
    /\ LET response == ResultResponse(request_id, calls[request_id].skill_name,
                                      calls[request_id].result)
       IN /\ history' = Append(history, response)
          /\ calls' = [calls EXCEPT ![request_id].pc = "returned",
                                    ![request_id].response = response]
          /\ resp' = Resp("execute_return", request_id, 200, response)
    /\ UNCHANGED <<pending, futures, next_request, delivered>>

\* execute resumes with the CancelledError of a future that clear cancelled:
\* no except branch catches it, nothing is appended to the history.
execute_cancelled(request_id) ==
    /\ request_id \in DOMAIN calls
    /\ calls[request_id].pc = "awaiting"
    /\ calls[request_id].fut = "cancelled"
    /\ calls' = [calls EXCEPT ![request_id].pc = "cancelled"]
    /\ resp' = Resp("execute_raise", request_id, 500, None)
    /\ UNCHANGED <<pending, futures, history, next_request, delivered>>

\* Mutant: a peek, the pending set is returned and not cleared.
get_pending_peek ==
    /\ resp' = Resp("get_pending", None, 200, DOMAIN pending)
    /\ delivered' = [r \in DOMAIN delivered |->
                        IF r \in DOMAIN pending THEN delivered[r] + 1 ELSE delivered[r]]
    /\ UNCHANGED <<pending, futures, history, calls, next_request>>

\* Mutant: the queue is cleared before it is listed, the poll returns nothing.
get_pending_clear_first ==
    /\ resp' = Resp("get_pending", None, 200, {})
    /\ delivered' = delivered
    /\ pending' = <<>>
    /\ UNCHANGED <<futures, history, calls, next_request>>
get_pending ==
    /\ resp' = Resp("get_pending", None, 200, DOMAIN pending)
    /\ delivered' = [r \in DOMAIN delivered |->
                        IF r \in DOMAIN pending THEN delivered[r] + 1 ELSE delivered[r]]
    /\ pending' = <<>>
    /\ UNCHANGED <<futures, history, calls, next_request>>

claim(request_id) ==
    IF request_id \in DOMAIN pending
    THEN /\ resp' = Resp("claim", request_id, 200, {request_id})
         /\ delivered' = [delivered EXCEPT ![request_id] = @ + 1]
         /\ pending' = Without(pending, request_id)
         /\ UNCHANGED <<futures, history, calls, next_request>>
    ELSE /\ resp' = Resp("claim", request_id, 404, {})
         /\ UNCHANGED queue_vars

\* Mutant: the report resolves every unresolved waiter, not only its own.
report_result_broadcast(request_id, result) ==
    IF request_id \notin futures
    THEN /\ resp' = Resp("report_result", request_id, 404, FALSE)
         /\ UNCHANGED queue_vars
    ELSE /\ futures' = futures \ {request_id}
         /\ calls' = [q \in DOMAIN calls |->
                         IF calls[q].fut = "pending"
                         THEN [calls[q] EXCEPT !.fut = "result", !.result = result]
                         ELSE calls[q]]
         /\ resp' = Resp("report_result", request_id, 200, TRUE)
         /\ UNCHANGED <<pending, history, next_request, delivered>>
\* Mutant: the waiter is looked up and left in the table (get for pop).
report_result_keeps_waiter(request_id, result) ==
    IF request_id \notin futures
    THEN /\ resp' = Resp("report_result", request_id, 404, FALSE)
         /\ UNCHANGED queue_vars
    ELSE /\ calls' = IF calls[request_id].fut = "pending"
                     THEN [calls EXCEPT ![request_id].fut = "result",
                                        ![request_id].result = result]
                     ELSE calls
         /\ resp' = Resp("report_result", request_id, 200, TRUE)
         /\ UNCHANGED <<pending, futures, history, next_request, delivered>>
\* Mutant: a report without a waiter also drops the queued command of that id.
report_result_purges(request_id, result) ==
    IF request_id \notin futures
    THEN /\ resp' = Resp("report_result", request_id, 404, FALSE)
         /\ pending' = IF request_id \in DOMAIN pending
                       THEN Without(pending, request_id) ELSE pending
         /\ UNCHANGED <<futures, history, calls, next_request, delivered>>
    ELSE /\ futures' = futures \ {request_id}
         /\ calls' = IF calls[request_id].fut = "pending"
                     THEN [calls EXCEPT ![request_id].fut = "result",
                                        ![request_id].result = result]
                     ELSE calls
         /\ resp' = Resp("report_result", request_id, 200, TRUE)
         /\ UNCHANGED <<pending, history, next_request, delivered>>
\* Mutant: the result is set without asking whether the future is done.
report_result_overwrites(request_id, result) ==
    IF request_id \notin futures
    THEN /\ resp' = Resp("report_result", request_id, 404, FALSE)
         /\ UNCHANGED queue_vars
    ELSE /\ futures' = futures \ {request_id}
         /\ calls' = [calls EXCEPT ![request_id].fut = "result",
                                   ![request_id].result = result]
         /\ resp' = Resp("report_result", request_id, 200, TRUE)
         /\ UNCHANGED <<pending, history, next_request, delivered>>
report_result(request_id, result) ==
    IF request_id \notin futures
    THEN /\ resp' = Resp("report_result", request_id, 404, FALSE)
         /\ UNCHANGED queue_vars
    ELSE /\ futures' = futures \ {request_id}
         /\ calls' = IF calls[request_id].fut = "pending"
                     THEN [calls EXCEPT ![request_id].fut = "result",
                                        ![request_id].result = result]
                     ELSE calls
         /\ resp' = Resp("report_result", request_id, 200, TRUE)
         /\ UNCHANGED <<pending, history, next_request, delivered>>

\* The last limit entries of the history (self._history[-limit:]).
get_history(limit) ==
    IF limit = 0 \/ limit >= Len(history)
    THEN history
    ELSE SubSeq(history, Len(history) - limit + 1, Len(history))

\* Mutant: the tables are emptied, the futures are not cancelled.
queue_clear_no_cancel ==
    /\ pending' = <<>>
    /\ futures' = {}
    /\ resp' = Resp("queue_clear", None, 200, None)
    /\ UNCHANGED <<history, calls, next_request, delivered>>
\* SkillQueue.clear().
queue_clear ==
    /\ calls' = [r \in DOMAIN calls |->
                    IF r \in futures /\ calls[r].fut = "pending"
                    THEN [calls[r] EXCEPT !.fut = "cancelled"]
                    ELSE calls[r]]
    /\ pending' = <<>>
    /\ futures' = {}
    /\ resp' = Resp("queue_clear", None, 200, None)
    /\ UNCHANGED <<history, next_request, delivered>>

\* A request handler that is serving no approve request.
IdleHandler == [state |-> "idle", device_id |-> None, seen |-> "nothing", token |-> None]

Init ==
    /\ devices = <<>>
    /\ tokens = <<>>
    /\ static_token \in StaticValues
    /\ next_device = 0
    /\ minted = 0
    /\ settings = [tts_suppressed |-> FALSE, buffer_size |-> 20, revision |-> 0]
    /\ pending = <<>>
    /\ futures = {}
    /\ history = <<>>
    /\ calls = <<>>
    /\ next_request = 0
    /\ delivered = <<>>
    /\ handlers = [h \in Handlers |-> IdleHandler]
    /\ resp = Resp("none", None, 0, None)

\* Mutant: registration goes through the auth guard like a mutating endpoint.
RegisterGuarded(names) ==
    \E name \in names, serial \in DeviceSerials :
        IF AuthAllowed(None)
        THEN register(name, serial) /\ UNCHANGED <<settings, queue_vars, handlers>>
        ELSE /\ resp' = Resp("register", <<name, serial>>, 401, None)
             /\ UNCHANGED <<registry_vars, settings, queue_vars, handlers>>

\* POST /device/register: open.
RegisterNamed(names) ==
    \E name \in names, serial \in DeviceSerials :
        /\ register(name, serial)
        /\ UNCHANGED <<settings, queue_vars, handlers>>

Register == RegisterNamed({"Pixel"})

\* Mutant: an approval counts as a change of the settings.
ApproveBumps ==
    \E device_id \in RequestedIds :
        /\ approve(device_id)
        /\ settings' = [settings EXCEPT !.revision =
                            IF @ < MaxRevision THEN @ + 1 ELSE @]
        /\ UNCHANGED <<queue_vars, handlers>>
\* POST /device/approve/{id}: open.
Approve ==
    \E device_id \in RequestedIds :
        /\ approve(device_id)
        /\ UNCHANGED <<settings, queue_vars, handlers>>

\* POST /device/reject/{id}: open.
Reject ==
    \E device_id \in RequestedIds :
        /\ reject(device_id)
        /\ UNCHANGED <<settings, queue_vars, handlers>>

\* device_registry.clear(): the full reset.
Clear ==
    /\ clear
    /\ UNCHANGED <<settings, queue_vars, handlers>>

TtsValues == {<<<<"tts_suppressed", TRUE>>>>, <<<<"tts_suppressed", FALSE>>>>}

GuardedAnalyze == \E header \in HeaderValues : Analyze(header)

GuardedPatch == \E header \in HeaderValues, kwargs \in TtsValues : PatchSettings(header, kwargs)

Poll ==
    \E device_id \in {None} \cup RequestedIds, revision \in {None} \cup (0..MaxRevision) :
        SettingsPoll(device_id, revision)

ListDevices == \E which \in {"device_pending", "device_all"} : DeviceList(which)

\* GET /skill/pending: open.
GetPending == get_pending /\ UNCHANGED <<registry_vars, settings, handlers>>

\* GET /skill/history?limit=: open.
GetHistory ==
    \E limit \in 0..MaxRequests :
        /\ resp' = Resp("get_history", limit, 200, get_history(limit))
        /\ UNCHANGED <<registry_vars, settings, queue_vars, handlers>>

\* The device registry behind the HTTP transport.
Next ==
    \/ Register
    \/ Approve
    \/ Reject
    \/ Clear
    \/ GuardedAnalyze
    \/ Poll
    \/ ListDevices
    \/ GetPending
    \/ GetHistory

Spec == Init /\ [][Next]_vars

\* ------------------------------------------------------- claims on the registry

Approved(d) == d \in DOMAIN devices /\ devices[d].status = "approved"

C2_TokenIffApproved ==
    \A d \in DOMAIN devices :
        devices[d].auth_token # None <=> devices[d].status = "approved"

\* An approved, a rejected-after-approval record side by side.
C2_Witness ==
    \E d, e \in DOMAIN devices :
        /\ devices[d].status = "approved" /\ devices[d].auth_token # None
        /\ devices[e].status = "rejected" /\ devices[e].approved_at # None

\* C3: reject(d) of a device that holds the token t approve issued (t not the
\* static token) leaves t not validating, d rejected and d's token field empty.
C3_RejectRevokes ==
    [][\A d \in DOMAIN devices, t \in MintedTokens :
          (/\ resp'.op = "reject" /\ resp'.arg = d
           /\ devices[d].status = "approved"
           /\ devices[d].auth_token = t
           /\ validate_token(t)
           /\ t # static_token)
          => /\ ~(validate_token(t))'
             /\ devices'[d].status = "rejected"
             /\ devices'[d].auth_token = None]_vars

\* A reject of a device that had been approved.
C3_Witness ==
    /\ resp.op = "reject" /\ resp.status = 200
    /\ devices[resp.arg].approved_at # None
    /\ devices[resp.arg].status = "rejected"

\* C4 as claimed: without a static token auth_enabled is false until the first
\* approval (the first token minted) and true in every state after it.
C4_Original ==
    static_token = None => (auth_enabled <=> minted > 0)

\* C4 as amended: without a static token auth_enabled is false before the first
\* approval, true right after every successful approve, stays true while some
\* device is approved, and is false again as soon as no device is approved.
C4_AuthFollowsApprovals ==
    [][static_token = None =>
          /\ minted = 0 => ~auth_enabled
          /\ (resp'.op = "approve" /\ resp'.status = 200) => auth_enabled'
          /\ (\E d \in DOMAIN devices' : devices'[d].status = "approved") => auth_enabled'
          /\ (\A d \in DOMAIN devices' : devices'[d].status # "approved") => ~auth_enabled'
          /\ (auth_enabled /\ ~auth_enabled') => resp'.op \in {"reject", "clear"}]_vars

\* The only approved device has just been rejected: auth is off again.
C4_Witness ==
    /\ static_token = None /\ minted > 0
    /\ resp.op = "reject" /\ resp.status = 200
    /\ ~auth_enabled

\* C5: auth_enabled is true exactly when a static token is configured or some
\* record currently has status approved, whatever happened before.
C5_AuthEnabledComputed ==
    auth_enabled <=>
        (static_token # None \/ \E d \in DOMAIN devices : devices[d].status = "approved")

\* Tokens were minted, no device is approved any more, auth is off.
C5_Witness ==
    /\ minted > 0 /\ DOMAIN devices # {}
    /\ ~auth_enabled

OpenOps ==
    {"register", "approve", "reject", "settings_poll", "device_pending",
     "device_all", "get_pending", "get_history"}

\* C6: the open endpoints are never answered 401; a register is always
\* answered with a device record, an approve of a registered device always
\* leaves it approved with a validating token, whether auth is enabled or not.
C6_OpenEndpoints ==
    [][/\ resp'.op \in OpenOps => resp'.status # 401
       /\ resp'.op = "register" =>
              /\ resp'.status = 200
              /\ resp'.body.device_id \in DOMAIN devices'
       /\ (resp'.op \in {"approve", "reject"} /\ resp'.arg \in DOMAIN devices) =>
              resp'.status = 200
       /\ (resp'.op = "approve" /\ resp'.arg \in DOMAIN devices) =>
              /\ devices'[resp'.arg].status = "approved"
              /\ resp'.body.auth_token \in DOMAIN tokens'
       /\ resp'.op \in {"settings_poll", "device_pending", "device_all",
                        "get_pending", "get_history"} => resp'.status \in {200, 304}]_vars

\* A device registers while auth is enabled and is then approved.
C6_Witness ==
    /\ resp.op = "approve" /\ resp.status = 200
    /\ \E d \in DOMAIN devices : d # resp.arg /\ Approved(d) /\ d < resp.arg

\* C7: a settings poll that names an approved device is answered 200 with
\* that device's token, the one the reverse map holds for it, whatever
\* revision the client sends.
C7_PollDeliversToken ==
    [][\A d \in DOMAIN devices :
          (resp'.op = "settings_poll" /\ resp'.arg[1] = d /\ devices[d].status = "approved")
          => /\ resp'.status = 200
             /\ resp'.body.auth_token = devices[d].auth_token
             /\ resp'.body.auth_token \in DOMAIN tokens
             /\ tokens[resp'.body.auth_token] = d]_vars

\* The poll of an approved device with the server's current revision.
C7_Witness ==
    /\ resp.op = "settings_poll" /\ resp.status = 200
    /\ resp.arg[1] \in DOMAIN devices
    /\ resp.arg[2] = settings.revision
    /\ resp.body.auth_token = devices[resp.arg[1]].auth_token
    /\ resp.body.auth_token # None

\* C8: a settings poll answer holds a token only if the poll names a device
\* that is approved; get_token_for_device is none for every other id.
C8_TokenOnlyForApproved ==
    [][/\ (resp'.op = "settings_poll" /\ resp'.status = 200
           /\ resp'.body.auth_token # None)
          => /\ resp'.arg[1] # None
             /\ resp'.arg[1] \in DOMAIN devices
             /\ devices[resp'.arg[1]].status = "approved"
       /\ \A id \in RequestedIds :
             (id \notin DOMAIN devices \/ devices[id].status # "approved")
             => get_token_for_device(id) = None]_vars

\* Polls of a rejected device that had a token: answered without one.
C8_Witness ==
    /\ resp.op = "settings_poll"
    /\ resp.arg[1] \in DOMAIN devices
    /\ devices[resp.arg[1]].status = "rejected"
    /\ devices[resp.arg[1]].approved_at # None
    /\ resp.arg[2] = None
    /\ resp.status = 200 /\ resp.body.auth_token = None
    /\ static_token = EnvSecret

RevokedByReject ==
    {t \in MintedTokens :
        \E d \in DOMAIN devices :
            devices[d].status = "rejected" /\ devices[d].approved_at = t}

\* C29: once reject has revoked a device's token t (t not the static token),
\* every guarded request that presents t is refused with 401, also when no
\* other device is approved and no static token is configured.
C29_RevokedTokenRefused ==
    [][\A t \in RevokedByReject :
          (t # static_token /\ resp'.op = "analyze" /\ resp'.arg = t)
          => resp'.status = 401]_vars
\* C32: a client that holds no token and registered nothing learns no valid
\* token from the open endpoints: the settings poll it makes with a device id
\* read from the open device list carries no token that validate_token accepts.
C32_NoTokenForStrangers ==
    [][(/\ resp.op = "device_all"
        /\ resp'.op = "settings_poll"
        /\ resp'.status = 200
        /\ resp'.arg[1] \in resp.body)
       => ~validate_token(resp'.body.auth_token)]_vars
\* C33: whenever auth is enabled some token value validates, whatever static
\* token (the empty string included) the server was started with, so guarded
\* endpoints are never locked for every caller.
C33_SomeTokenValidates ==
    auth_enabled => \E token \in HeaderValues \ {None} : validate_token(token)
\* ------------------------------------------- the registry under its operators

\* POST /device/register under either device name.
RegisterAny == RegisterNamed(DeviceNames)

\* Devices that register and re-register, an operator who approves and rejects.
NextRegistry ==
    \/ RegisterAny
    \/ Approve
    \/ Reject
    \/ Clear

SpecRegistry == Init /\ [][NextRegistry]_vars

\* C18: register with a non-empty serial that an existing record has returns
\* that record's device id and status and changes nothing: no record is
\* added, and the record keeps its name, status, token and timestamps.
C18_RegisterDedup ==
    [][\A d \in DOMAIN devices :
          (/\ resp'.op = "register"
           /\ resp'.arg[2] # ""
           /\ devices[d].device_serial = resp'.arg[2])
          => /\ resp'.body.device_id = d
             /\ resp'.body.status = devices[d].status
             /\ devices' = devices
             /\ tokens' = tokens
             /\ next_device' = next_device
             /\ minted' = minted]_vars

\* An approved device registers again under another name: same id, still
\* approved with its token, still under its first name.
C18_Witness ==
    /\ resp.op = "register"
    /\ resp.arg = <<"Pixel Retry", "SN123">>
    /\ resp.body.status = "approved"
    /\ devices[resp.body.device_id].device_name = "Pixel"
    /\ devices[resp.body.device_id].auth_token \in DOMAIN tokens
\* C19: approve of a device that is already approved returns the token that
\* device holds, the one minted by the approval that made it approved (the
\* record's approval timestamp is that approval's), and changes nothing: no
\* token is minted, the records and the reverse map stay as they were.
C19_ApproveIdempotent ==
    [][\A d \in DOMAIN devices :
          (resp'.op = "approve" /\ resp'.arg = d /\ devices[d].status = "approved")
          => /\ resp'.status = 200
             /\ resp'.body.auth_token = devices[d].auth_token
             /\ devices[d].approved_at = devices[d].auth_token
             /\ devices' = devices
             /\ tokens' = tokens
             /\ minted' = minted]_vars

\* A repeated approve: the token returned is older than the latest one minted.
C19_Witness ==
    /\ resp.op = "approve" /\ resp.status = 200
    /\ resp.body.auth_token < minted
    /\ devices[resp.arg].status = "approved"
    /\ devices[resp.arg].auth_token = resp.body.auth_token
\* C21: the reverse token map is the one-to-one correspondence between the
\* approved devices and their tokens: every entry points to an existing,
\* approved device whose auth_token is the entry's token, every approved
\* device has its token as its only entry, two devices never share a token,
\* and get_device_by_token(t) is the device that holds t.
C21_ReverseMapExact ==
    /\ \A t \in DOMAIN tokens :
          /\ tokens[t] \in DOMAIN devices
          /\ devices[tokens[t]].status = "approved"
          /\ devices[tokens[t]].auth_token = t
          /\ get_device_by_token(t) = tokens[t]
    /\ \A d \in DOMAIN devices :
          devices[d].status = "approved"
          => {t \in DOMAIN tokens : tokens[t] = d} = {devices[d].auth_token}
    /\ \A d, e \in DOMAIN devices :
          (d # e /\ devices[d].auth_token # None) => devices[d].auth_token # devices[e].auth_token
    /\ \A t \in HeaderValues \ DOMAIN tokens : get_device_by_token(t) = None

\* Two approved devices, each under its own token in the reverse map.
C21_Witness ==
    /\ Cardinality(DOMAIN tokens) = 2
    /\ \E d, e \in DOMAIN devices :
          /\ d # e
          /\ get_device_by_token(devices[d].auth_token) = d
          /\ get_device_by_token(devices[e].auth_token) = e
\* The tokens issued so far that are no longer in the reverse map: revoked by
\* reject or dropped by the reset.
Revoked == {t \in MintedTokens : t <= minted /\ t \notin DOMAIN tokens}

\* C22: an approve that mints returns a token that was never issued before
\* and that no record holds, also when the device had a token earlier; a
\* token that is revoked stays revoked and does not validate in any later
\* state.
C22_TokensNeverReused ==
    [][/\ (resp'.op = "approve" /\ tokens' # tokens) =>
              /\ resp'.body.auth_token \notin 1..minted
              /\ resp'.body.auth_token \notin DOMAIN tokens
              /\ \A d \in DOMAIN devices :
                    /\ devices[d].auth_token # resp'.body.auth_token
                    /\ devices[d].approved_at # resp'.body.auth_token
              /\ DOMAIN tokens' = DOMAIN tokens \cup {resp'.body.auth_token}
       /\ \A t \in Revoked :
             /\ t \in Revoked'
             /\ ~validate_token(t)
             /\ ~(validate_token(t))']_vars

\* A device approved, rejected and approved again: it holds the second token,
\* the first one does not validate.
C22_Witness ==
    /\ next_device = 1 /\ minted = 2
    /\ devices[1].status = "approved"
    /\ devices[1].auth_token = 2
    /\ validate_token(2)
    /\ 1 \in Revoked /\ ~validate_token(1)
\* C36: approve and reject of a device id that is not in the registry answer
\* not found and change nothing in the registry: no record appears, no token
\* is drawn or revoked, auth_enabled keeps its value.
C36_UnknownIdNotFound ==
    [][(resp'.op \in {"approve", "reject"} /\ resp'.arg \notin DOMAIN devices)
       => /\ resp'.status = 404
          /\ resp'.body = None
          /\ UNCHANGED registry_vars
          /\ auth_enabled' = auth_enabled]_vars

\* An approve of an id the registry does not know, while a device is approved
\* and tokens are left to draw.
C36_Witness ==
    /\ resp.op = "approve"
    /\ resp.status = 404
    /\ resp.arg \notin DOMAIN devices
    /\ minted < MaxTokens
    /\ \E d \in DOMAIN devices : devices[d].status = "approved"

\* C37: register with an empty serial, or with a serial no record has, adds
\* exactly one record, pending and without a token, under an id no record had;
\* the records and tokens that existed stay as they were and auth_enabled
\* keeps its value.
C37_RegisterAddsOne ==
    [][(/\ resp'.op = "register"
        /\ \/ resp'.arg[2] = ""
           \/ \A d \in DOMAIN devices : devices[d].device_serial # resp'.arg[2])
       => LET id == resp'.body.device_id
          IN /\ resp'.status = 200
             /\ resp'.body.status = "pending"
             /\ id \notin DOMAIN devices
             /\ DOMAIN devices' = DOMAIN devices \cup {id}
             /\ Cardinality(DOMAIN devices') = Cardinality(DOMAIN devices) + 1
             /\ devices'[id].status = "pending"
             /\ devices'[id].auth_token = None
             /\ devices'[id].device_name = resp'.arg[1]
             /\ devices'[id].device_serial = resp'.arg[2]
             /\ \A d \in DOMAIN devices : devices'[d] = devices[d]
             /\ tokens' = tokens
             /\ auth_enabled' = auth_enabled]_vars

\* A second registration without a serial, next to an approved device that
\* has no serial either: a record of its own.
C37_Witness ==
    /\ resp.op = "register"
    /\ resp.arg[2] = ""
    /\ resp.body.device_id = 2
    /\ devices[2].status = "pending"
    /\ devices[1].device_serial = ""
    /\ devices[1].status = "approved"

\* C38: approve(d) and reject(d) change only device d: every other record
\* stays as it was, every other device's token stays in the reverse map and
\* keeps validating, and the reverse map differs at most in entries of d.
C38_OnlyThatDevice ==
    [][\A d \in RequestedIds :
          (resp'.op \in {"approve", "reject"} /\ resp'.arg = d)
          => /\ DOMAIN devices' = DOMAIN devices
             /\ \A e \in DOMAIN devices \ {d} :
                   /\ devices'[e] = devices[e]
                   /\ validate_token(devices[e].auth_token)
                      => validate_token(devices[e].auth_token)'
             /\ \A t \in DOMAIN tokens \cup DOMAIN tokens' :
                   \/ t \in DOMAIN tokens /\ t \in DOMAIN tokens'
                      /\ tokens'[t] = tokens[t]
                   \/ t \in DOMAIN tokens /\ t \notin DOMAIN tokens'
                      /\ tokens[t] = d
                   \/ t \notin DOMAIN tokens /\ t \in DOMAIN tokens'
                      /\ tokens'[t] = d]_vars

\* A device that held a token was rejected while another device is approved
\* and its token is still in the reverse map.
C38_Witness ==
    /\ resp.op = "reject"
    /\ resp.status = 200
    /\ devices[resp.arg].approved_at # None
    /\ \E e \in DOMAIN devices \ {resp.arg} :
          /\ devices[e].status = "approved"
          /\ devices[e].auth_token \in DOMAIN tokens
          /\ tokens[devices[e].auth_token] = e
\* C40: after clear no device record exists and the reverse map is empty, so
\* no device token issued before validates; the static token is kept, and auth
\* is enabled only if a static token is configured, which then still validates.
C40_ClearResets ==
    [][resp'.op = "clear"
       => /\ devices' = <<>>
          /\ tokens' = <<>>
          /\ \A t \in 1..minted : ~validate_token(t)'
          /\ static_token' = static_token
          /\ auth_enabled' => /\ static_token' # None
                              /\ validate_token(static_token)']_vars
\* ------------------------------------------------ approve requests in flight

\* POST /device/approve/{id} arrives at the handler h, which notes the status
\* the device has at that moment and is not yet run by the event loop.
ApproveArrives(h, device_id) ==
    /\ handlers[h].state = "idle"
    /\ handlers' = [handlers EXCEPT ![h] =
                       [state |-> "received", device_id |-> device_id,
                        seen |-> IF device_id \in DOMAIN devices
                                 THEN devices[device_id].status ELSE "unknown",
                        token |-> None]]
    /\ UNCHANGED <<registry_vars, settings, queue_vars, resp>>

\* Mutant: the handler decides on the status it saw when the request arrived
\* and mints after the suspension point, whatever the device is by then.
ApproveRunsStale(h) ==
    /\ handlers[h].state = "received"
    /\ LET device_id == handlers[h].device_id
       IN IF device_id \notin DOMAIN devices
          THEN /\ resp' = Resp("approve", device_id, 404, None)
               /\ UNCHANGED registry_vars
          ELSE IF handlers[h].seen = "approved"
          THEN /\ resp' = Resp("approve", device_id, 200,
                               [device_id |-> device_id, status |-> "approved",
                                auth_token |-> devices[device_id].auth_token])
               /\ UNCHANGED registry_vars
          ELSE /\ minted < MaxTokens
               /\ devices' = [devices EXCEPT ![device_id].status = "approved",
                                                ![device_id].auth_token = token_hex_16,
                                                ![device_id].approved_at = token_hex_16]
               /\ tokens' = With(tokens, token_hex_16, device_id)
               /\ minted' = token_hex_16
               /\ resp' = Resp("approve", device_id, 200,
                               [device_id |-> device_id, status |-> "approved",
                                auth_token |-> token_hex_16])
               /\ UNCHANGED <<static_token, next_device>>
    /\ handlers' = [handlers EXCEPT ![h].state = "done",
                                    ![h].token = IF resp'.status = 200
                                                 THEN resp'.body.auth_token ELSE None]
    /\ UNCHANGED <<settings, queue_vars>>

\* The event loop runs the handler h: approve is a plain method without a
\* suspension point, so its check and its mint happen in this one step.
ApproveRuns(h) ==
    /\ handlers[h].state = "received"
    /\ approve(handlers[h].device_id)
    /\ handlers' = [handlers EXCEPT ![h].state = "done",
                                    ![h].token = IF resp'.status = 200
                                                 THEN resp'.body.auth_token ELSE None]
    /\ UNCHANGED <<settings, queue_vars>>

\* The answer of the handler h has been sent.
ApproveReturns(h) ==
    /\ handlers[h].state = "done"
    /\ handlers' = [handlers EXCEPT ![h] = IdleHandler]
    /\ UNCHANGED <<registry_vars, settings, queue_vars, resp>>

ApproveArrive == \E h \in Handlers, device_id \in RequestedIds : ApproveArrives(h, device_id)

ApproveRun == \E h \in Handlers : ApproveRuns(h)

ApproveReturn == \E h \in Handlers : ApproveReturns(h)

\* Devices register, operators approve from several requests at once; no
\* reject, no reset.
NextApprove ==
    \/ Register
    \/ ApproveArrive
    \/ ApproveRun
    \/ ApproveReturn

\* No AGENT_AUTH_TOKEN: the registry alone decides.
InitApprove == Init /\ static_token = None

SpecApprove == InitApprove /\ [][NextApprove]_vars

\* C20: however approve requests for one device interleave, one token is
\* minted per approved device, the reverse map holds one entry for it, and
\* every handler that has run for the device got that token.
C20_OneTokenPerDevice ==
    /\ minted = Cardinality({d \in DOMAIN devices : devices[d].status = "approved"})
    /\ \A d \in DOMAIN devices :
          /\ Cardinality({t \in DOMAIN tokens : tokens[t] = d}) <= 1
          /\ devices[d].status = "approved" =>
                 {t \in DOMAIN tokens : tokens[t] = d} = {devices[d].auth_token}
    /\ \A h \in Handlers :
          (handlers[h].state = "done" /\ handlers[h].seen # "unknown")
          => /\ handlers[h].token \in MintedTokens
             /\ handlers[h].token = devices[handlers[h].device_id].auth_token

\* Two requests for the same device, both arrived while it was pending, have
\* both run: one token.
C20_Witness ==
    \E h, g \in Handlers :
        /\ h # g
        /\ handlers[h].state = "done" /\ handlers[g].state = "done"
        /\ handlers[h].device_id = handlers[g].device_id
        /\ handlers[h].seen = "pending" /\ handlers[g].seen = "pending"
        /\ handlers[h].token = handlers[g].token
        /\ handlers[h].token \in DOMAIN tokens
\* ------------------------------------------------- the skill relay on its own

\* POST /skill/execute up to the await.
ExecuteNamed(names) ==
    \E skill_name \in names :
        execute_start(skill_name) /\ UNCHANGED <<registry_vars, settings, handlers>>

Execute == ExecuteNamed({"tap"})

TimerFires ==
    \E request_id \in DOMAIN calls :
        timer_fires(request_id) /\ UNCHANGED <<registry_vars, settings, handlers>>

ExecuteTimeout ==
    \E request_id \in DOMAIN calls :
        execute_timeout(request_id) /\ UNCHANGED <<registry_vars, settings, handlers>>

ExecuteResult ==
    \E request_id \in DOMAIN calls :
        execute_result(request_id) /\ UNCHANGED <<registry_vars, settings, handlers>>

ExecuteCancelled ==
    \E request_id \in DOMAIN calls :
        execute_cancelled(request_id) /\ UNCHANGED <<registry_vars, settings, handlers>>

Claim ==
    \E request_id \in RequestIds :
        claim(request_id) /\ UNCHANGED <<registry_vars, settings, handlers>>

\* POST /skill/result: open.
ReportResult ==
    \E request_id \in RequestIds, result \in Reports :
        report_result(request_id, result) /\ UNCHANGED <<registry_vars, settings, handlers>>

QueueClear == queue_clear /\ UNCHANGED <<registry_vars, settings, handlers>>

InitQueue == Init /\ static_token = None

NextQueue ==
    \/ Execute
    \/ TimerFires
    \/ ExecuteTimeout
    \/ ExecuteResult
    \/ ExecuteCancelled
    \/ GetPending
    \/ Claim
    \/ ReportResult
    \/ QueueClear

SpecQueue == InitQueue /\ [][NextQueue]_vars

\* ---------------------------------------------------- claims on the skill relay

\* The execute call for r returned through its timeout branch.
TimedOut(r) ==
    r \in DOMAIN calls /\ calls[r].pc = "returned" /\ calls[r].fut = "cancelled"

\* What holds of every call that timed out: a well-formed failure, no pending
\* command and no waiter left.
TimedOutClean ==
    \A r \in DOMAIN calls :
        TimedOut(r) =>
            /\ calls[r].response.success = FALSE
            /\ calls[r].response.request_id = r
            /\ calls[r].response.skill_name = calls[r].skill_name
            /\ r \notin DOMAIN pending
            /\ r \notin futures

\* C9: an execute call whose timer fires before any report returns a failure
\* with its own request id and skill name, leaves neither a pending command
\* nor a waiter for that id, and every report_result made for the id after
\* the call has returned is answered false.
C9_TimeoutCleansUp ==
    [][/\ TimedOutClean
       /\ TimedOutClean'
       /\ \A r \in DOMAIN calls :
             (TimedOut(r) /\ resp'.op = "report_result" /\ resp'.arg = r)
             => resp'.body = FALSE /\ UNCHANGED queue_vars]_vars

\* A report for a request id whose call timed out: refused.
C9_Witness ==
    /\ resp.op = "report_result" /\ resp.body = FALSE
    /\ TimedOut(resp.arg)
    /\ delivered[resp.arg] = 0

\* C10: get_pending and claim together return each request id at most once,
\* and a request id that has left the pending set never enters it again.
C10_AtMostOnceDelivery ==
    [][/\ \A r \in DOMAIN delivered' : delivered'[r] <= 1
       /\ \A r \in DOMAIN calls : r \notin DOMAIN pending => r \notin DOMAIN pending'
       /\ \A r \in DOMAIN calls :
             (resp'.op \in {"get_pending", "claim"} /\ r \in resp'.body)
             => delivered[r] = 0 /\ r \in DOMAIN pending]_vars

\* A poll that returns nothing although a command handed out earlier is still
\* waiting for its result.
C10_Witness ==
    /\ resp.op = "get_pending" /\ resp.body = {}
    /\ \E r \in DOMAIN calls :
          delivered[r] = 1 /\ calls[r].pc = "awaiting" /\ calls[r].fut = "pending"

\* C11: get_pending returns exactly the commands that are in the pending set
\* when it is called and leaves the pending set empty; only execute adds to
\* the pending set, so a second get_pending with no execute in between
\* returns the empty list.
C11_GetPendingDrains ==
    [][/\ resp'.op = "get_pending" =>
              /\ resp'.body = DOMAIN pending
              /\ pending' = <<>>
       /\ resp'.op # "execute" => DOMAIN pending' \subseteq DOMAIN pending
       /\ (resp.op = "get_pending" /\ resp'.op = "get_pending") => resp'.body = {}]_vars

\* A poll has just drained two queued commands at once.
C11_Witness ==
    /\ resp.op = "get_pending"
    /\ Cardinality(resp.body) = 2
    /\ pending = <<>>
    /\ \A r \in resp.body : delivered[r] = 1 /\ r \in futures

\* C13: a report_result that returns true removes the waiter of its request
\* id, a waiter once removed never comes back, and a report for an id without
\* a waiter returns false and leaves every call as it was; so at most one
\* report per request id returns true, and the result a waiter was resolved
\* with is never replaced.
C13_OneReportWins ==
    [][/\ \A r \in RequestIds :
             (resp'.op = "report_result" /\ resp'.arg = r /\ resp'.body = TRUE)
             => r \in futures /\ r \notin futures'
       /\ \A r \in DOMAIN calls : r \notin futures => r \notin futures'
       /\ \A r \in DOMAIN calls :
             (r \notin futures /\ resp'.op = "report_result" /\ resp'.arg = r)
             => resp'.body = FALSE /\ calls' = calls
       /\ \A r \in DOMAIN calls :
             calls[r].fut = "result"
             => calls'[r].fut = "result" /\ calls'[r].result = calls[r].result]_vars

\* A second report for a request whose caller has not yet resumed with the
\* first one: refused.
C13_Witness ==
    /\ resp.op = "report_result" /\ resp.body = FALSE
    /\ resp.arg \in DOMAIN calls
    /\ calls[resp.arg].fut = "result"
    /\ calls[resp.arg].pc = "awaiting"
\* C14: report_result for a request id that has no waiter (never issued,
\* already timed out, already cleared or already reported) returns false and
\* changes neither the pending set, the waiter table, the history nor any call.
C14_OrphanReportRejected ==
    [][\A r \in RequestIds :
          (resp'.op = "report_result" /\ resp'.arg = r /\ r \notin futures)
          => /\ resp'.body = FALSE
             /\ resp'.status = 404
             /\ pending' = pending
             /\ futures' = futures
             /\ history' = history
             /\ calls' = calls]_vars

\* A report for a call that clear() cancelled, refused while a later call is
\* still waiting and queued.
C14_Witness ==
    /\ resp.op = "report_result" /\ resp.body = FALSE
    /\ resp.arg \in DOMAIN calls
    /\ calls[resp.arg].pc = "cancelled"
    /\ \E q \in DOMAIN calls : q \in futures /\ q \in DOMAIN pending
\* The execute call for r is suspended on a future that clear() cancelled.
ClearCancelled(r) ==
    r \in DOMAIN calls /\ calls[r].pc = "awaiting" /\ calls[r].fut = "cancelled"

\* C15: clear() empties the pending set and the waiter table and cancels the
\* future of every call that is waiting unresolved; such a call has no waiter
\* left, its only next step is to end with the cancellation (no response, no
\* timeout), and a report for its id is answered false, before and after the
\* call has ended.
C15_ClearCancelsWaiters ==
    [][/\ resp'.op = "queue_clear" =>
              /\ pending' = <<>>
              /\ futures' = {}
              /\ \A r \in DOMAIN calls :
                    (calls[r].pc = "awaiting" /\ calls[r].fut = "pending")
                    => ClearCancelled(r)'
       /\ \A r \in DOMAIN calls :
             (ClearCancelled(r) \/ calls[r].pc = "cancelled")
             => /\ r \notin futures
                /\ (resp'.op = "report_result" /\ resp'.arg = r) => resp'.body = FALSE
       /\ \A r \in DOMAIN calls :
             ClearCancelled(r)
             => \/ calls'[r] = calls[r]
                \/ /\ resp'.op = "execute_raise" /\ resp'.arg = r
                   /\ calls'[r] = [calls[r] EXCEPT !.pc = "cancelled"]
                   /\ calls'[r].response = None
                   /\ history' = history]_vars

\* clear() has just cancelled two waiting calls, one of them already handed
\* out to the device.
C15_Witness ==
    /\ resp.op = "queue_clear"
    /\ \E r, q \in DOMAIN calls :
          /\ r # q
          /\ ClearCancelled(r) /\ ClearCancelled(q)
          /\ delivered[r] = 1 /\ delivered[q] = 0
\* The state of a command in the relay's state machine, from its call record
\* c and whether its id is in the pending set: the way its caller's wait has
\* ended or is bound to end, else whether it is still queued.
Stage(c, queued) ==
    IF c.pc = "cancelled" \/ (c.pc = "awaiting" /\ c.fut = "cancelled") THEN "cancelled"
    ELSE IF c.pc = "timeout" \/ (c.pc = "returned" /\ c.fut = "cancelled") THEN "timed_out"
    ELSE IF c.fut = "result" THEN "resolved"
    ELSE IF queued THEN "queued"
    ELSE "claimed"

Rank(stage) ==
    IF stage = "queued" THEN 0 ELSE IF stage = "claimed" THEN 1 ELSE 2

\* C17: a command that has left the pending set never re-enters it; its state
\* only moves forward (queued, claimed, then resolved, timed_out or
\* cancelled); a resolved, timed-out or cancelled command keeps that state,
\* the outcome of its waiter is never replaced, and a call that has returned
\* or was cancelled is never changed again.
C17_ForwardOnly ==
    [][\A r \in DOMAIN calls :
          LET before == Stage(calls[r], r \in DOMAIN pending)
              after == Stage(calls'[r], r \in DOMAIN pending')
          IN /\ r \in DOMAIN calls'
             /\ r \notin DOMAIN pending => r \notin DOMAIN pending'
             /\ Rank(before) <= Rank(after)
             /\ Rank(before) = 2 => after = before
             /\ calls[r].fut # "pending" =>
                    /\ calls'[r].fut = calls[r].fut
                    /\ calls'[r].result = calls[r].result
             /\ calls[r].pc \in {"returned", "cancelled"} => calls'[r] = calls[r]]_vars

\* A poll drains a command whose call has already returned with a result:
\* the later operation leaves the command resolved and the outcome as it was.
C17_Witness ==
    /\ resp.op = "get_pending"
    /\ \E r \in resp.body :
          /\ calls[r].pc = "returned"
          /\ calls[r].fut = "result"
          /\ calls[r].response.success
          /\ Stage(calls[r], r \in DOMAIN pending) = "resolved"
\* --------------------------------------------------- the event loop is fair

\* What the event loop does for the execute call r on its own: fire its timer,
\* resume it with the result, the TimeoutError or the CancelledError.
LoopStep(request_id) ==
    /\ \/ timer_fires(request_id)
       \/ execute_timeout(request_id)
       \/ execute_result(request_id)
       \/ execute_cancelled(request_id)
    /\ UNCHANGED <<registry_vars, settings, handlers>>

\* POST /skill/result with the report of a skill that succeeded.
ReportDone ==
    \E request_id \in RequestIds :
        /\ report_result(request_id, [success |-> TRUE, message |-> "done", data |-> 1])
        /\ UNCHANGED <<registry_vars, settings, handlers>>

NextLive ==
    \/ Execute
    \/ TimerFires
    \/ ExecuteTimeout
    \/ ExecuteResult
    \/ ExecuteCancelled
    \/ GetPending
    \/ Claim
    \/ ReportDone
    \/ QueueClear

\* The loop runs every timer that is due and every coroutine that is ready.
SpecQueueLive ==
    /\ InitQueue
    /\ [][NextLive]_vars
    /\ \A request_id \in 1..MaxRequests : WF_vars(LoopStep(request_id))

\* C16: every execute call that was started eventually ends: it returns the
\* reported result or the timeout failure, or it is cancelled by clear().
C16_ExecuteTerminates ==
    \A r \in 1..MaxRequests :
        (r \in DOMAIN calls) ~> (r \in DOMAIN calls /\ calls[r].pc \in {"returned", "cancelled"})

\* A command was handed to a device that never reported: its caller got the
\* timeout failure.
C16_Witness ==
    /\ resp.op = "execute_return"
    /\ TimedOut(resp.arg)
    /\ delivered[resp.arg] = 1
    /\ resp.arg \notin futures
\* The execute call for r returns in this step.
Completes(r) ==
    r \in DOMAIN calls /\ calls[r].pc # "returned" /\ calls'[r].pc = "returned"

\* C26: a step in which an execute call returns, with a reported result or
\* with the timeout failure, appends the response the caller gets to the
\* history; every other step (polls, claims, reports, timers, a cancelled
\* call, clear) leaves the history as it is; so the history holds the
\* response of every returned call exactly once, in the order of completion.
C26_HistoryLogsCompletions ==
    [][/\ \A r \in DOMAIN calls :
             Completes(r) => /\ history' = Append(history, calls'[r].response)
                             /\ resp'.body = calls'[r].response
       /\ (\A r \in DOMAIN calls : ~Completes(r)) => history' = history
       /\ Len(history') = Cardinality({r \in DOMAIN calls' : calls'[r].pc = "returned"})
       /\ \A r \in DOMAIN calls' :
             calls'[r].pc = "returned"
             => Cardinality({i \in 1..Len(history') : history'[i] = calls'[r].response}) = 1]_vars

\* A timed-out call and then a resolved one are in the history, in that
\* order, and clear() has left them there.
C26_Witness ==
    /\ resp.op = "queue_clear"
    /\ Len(history) = 2
    /\ history[1].message = "Timeout" /\ ~history[1].success
    /\ history[2].message = "done" /\ history[2].success
\* C27: the history log is bounded by a fixed maximum: in a run that makes
\* more execute calls than that maximum (MaxRequests of them, whatever
\* MaxRequests is), the log never holds an entry for every call.
C27_HistoryBounded ==
    Len(history) < MaxRequests
\* C30: report_result is acknowledged with true only if it resolves the
\* waiter, so that the execute call for that id returns the report to its
\* caller; a report for a call whose timer has expired, handled or not yet,
\* is not acknowledged with true.
C30_AckMeansDelivered ==
    [][\A r \in DOMAIN calls :
          (resp'.op = "report_result" /\ resp'.arg = r /\ resp'.body = TRUE)
          => /\ calls'[r].fut = "result"
             /\ calls'[r].pc = "awaiting"]_vars
\* C31: every request id in the pending set has a waiter in the waiter table
\* that no result has resolved, so that a result reported for a command that
\* was never claimed does not leave the command in the pending set.
C31_PendingHasWaiter ==
    \A r \in DOMAIN pending :
        /\ r \in futures
        /\ calls[r].fut # "result"
\* ------------------------------------------- overlapping calls of two skills

\* POST /skill/execute for either skill.
ExecuteAny == ExecuteNamed(SkillNames)

\* Callers and a reporting device only: no poll, no reset.
NextRelay ==
    \/ ExecuteAny
    \/ ReportResult
    \/ ExecuteResult
    \/ TimerFires
    \/ ExecuteTimeout

SpecRelay == InitQueue /\ [][NextRelay]_vars

\* C12: a report for the request id r made while r's waiter is unresolved
\* resolves r's waiter with exactly that report and touches no other call, and
\* a call that returns from a resolved waiter returns the report's success,
\* message and data under its own request id and skill name; so overlapping
\* calls each receive their own result in either order of the reports.
C12_OwnResult ==
    [][/\ \A r \in DOMAIN calls, res \in Reports :
             (report_result(r, res) /\ r \in futures /\ calls[r].fut = "pending")
             => /\ calls'[r].fut = "result"
                /\ calls'[r].result = res
                /\ \A q \in DOMAIN calls \ {r} : calls'[q] = calls[q]
       /\ \A r \in DOMAIN calls :
             (resp'.op = "execute_return" /\ resp'.arg = r /\ calls[r].fut = "result")
             => /\ calls'[r].response =
                       [request_id |-> r, skill_name |-> calls[r].skill_name,
                        success |-> calls[r].result.success,
                        message |-> calls[r].result.message,
                        data |-> calls[r].result.data]
                /\ resp'.body = calls'[r].response
                /\ \A q \in DOMAIN calls \ {r} : calls'[q] = calls[q]]_vars

\* Two overlapping calls of different skills got different reports, the later
\* call returning first, each with its own report.
C12_Witness ==
    /\ DOMAIN calls = {1, 2}
    /\ calls[1].skill_name # calls[2].skill_name
    /\ calls[1].pc = "returned" /\ calls[2].pc = "returned"
    /\ calls[1].response.success /\ calls[1].response.message = "done"
    /\ ~calls[2].response.success /\ calls[2].response.message = "failed"
    /\ history = <<calls[2].response, calls[1].response>>

\* ------------------------------------------------- the settings blob on its own

\* The keyword arguments of the update calls: one field, two fields, values
\* equal to the defaults, keys that are no field, derived fields, a name every
\* pydantic model has as an attribute.
KwargsValues ==
    {<<<<"tts_suppressed", TRUE>>>>,
     <<<<"tts_suppressed", FALSE>>>>,
     <<<<"buffer_size", 10>>>>,
     <<<<"tts_suppressed", TRUE>>, <<"buffer_size", 10>>>>,
     <<<<"tts_suppressed", FALSE>>, <<"buffer_size", 20>>>>,
     <<<<"nonexistent_key", "value">>>>,
     <<<<"revision", 999>>>>,
     <<<<"last_modified", 999>>>>,
     <<<<"revision", 999>>, <<"tts_suppressed", TRUE>>>>,
     <<<<"copy", 1>>>>,
     <<<<"tts_suppressed", TRUE>>, <<"copy", 1>>>>,
     <<<<"copy", 1>>, <<"buffer_size", 10>>>>}

\* device_settings.update(**kwargs): a raise leaves what the loop had set.
Update ==
    \E kwargs \in KwargsValues :
        /\ update(kwargs).blob.revision <= MaxRevision
        /\ settings' = update(kwargs).blob
        /\ resp' = IF update(kwargs).raised
                   THEN Resp("update", kwargs, 500, None)
                   ELSE Resp("update", kwargs, 200, update(kwargs).blob)
        /\ UNCHANGED <<registry_vars, queue_vars, handlers>>

\* device_settings.get_if_newer(client_revision).
GetIfNewer ==
    \E client_revision \in 0..(MaxRevision + 1) :
        /\ resp' = Resp("get_if_newer", client_revision, 200, get_if_newer(client_revision))
        /\ UNCHANGED <<registry_vars, settings, queue_vars, handlers>>

\* The dashboard updates, the device asks for what is newer, directly and
\* through the settings poll.
NextSettings ==
    \/ Update
    \/ GetIfNewer
    \/ Poll

SpecSettings == InitQueue /\ [][NextSettings]_vars

\* C23: an update call changes the revision by 0 or by 1: by 0 when every
\* value supplied for a field equals the field's current value, by 1 when at
\* least one field gets a different value, however many fields change.
C23_RevisionStep ==
    [][resp'.op = "update" =>
          LET kwargs == resp'.arg
              rise == settings'.revision - settings.revision
          IN /\ rise \in {0, 1}
             /\ (\A i \in 1..Len(kwargs) :
                    kwargs[i][1] \in SettableFields
                    => kwargs[i][2] = settings[kwargs[i][1]])
                => rise = 0
             /\ (\E key \in SettableFields : settings'[key] # settings[key])
                => rise = 1]_vars

\* C24: get_if_newer(r) returns the settings blob when r is less than the
\* current revision and no data when r is equal to it or greater, in every
\* state of the blob.
C24_NewerOnly ==
    [][resp'.op = "get_if_newer" =>
          /\ resp'.arg < settings.revision => resp'.body = <<settings>>
          /\ resp'.arg >= settings.revision => resp'.body = NoSettings
          /\ settings' = settings]_vars

\* A client that is up to date after a change asks again: no data.
C24_Witness ==
    /\ resp.op = "get_if_newer"
    /\ settings.revision > 0
    /\ resp.arg = settings.revision
    /\ resp.body = NoSettings

\* The entry e of an update call names a field that update may set.
NamesField(e) == e[1] \in SettableFields

\* C25: the entries of an update call that name no settable field (unknown
\* names, revision, last_modified) are ignored: the call returns and leaves
\* the blob that the same call without those entries leaves, so they change
\* no field, do not bump the revision, and never set it.
C25_UnsettableIgnored ==
    [][resp'.op = "update" =>
          /\ resp'.status = 200
          /\ settings' = update(SelectSeq(resp'.arg, NamesField)).blob
          /\ settings'.revision \in {settings.revision, settings.revision + 1}]_vars

\* ------------------------------------------------ the history as clients read it

\* Calls complete by a report or by their timeout while GET /skill/history is
\* asked for the last few of them.
NextHistory ==
    \/ Execute
    \/ ReportDone
    \/ ExecuteResult
    \/ TimerFires
    \/ ExecuteTimeout
    \/ GetHistory

SpecHistory == InitQueue /\ [][NextHistory]_vars

\* C34: get_history(limit), limit >= 0, answers with the last min(limit, n) of
\* the n history entries in completion order, so with nothing for limit 0.
C34_HistoryTail ==
    resp.op = "get_history" =>
        LET n == Len(history)
            k == IF resp.arg < n THEN resp.arg ELSE n
        IN resp.body = SubSeq(history, n - k + 1, n)

\* ------------------------------------------------- the whole core, one server

\* POST /skill/execute: guarded; a request the guard lets through runs execute
\* up to its await.
SkillExecute(header, skill_name) ==
    IF AuthAllowed(header)
    THEN execute_start(skill_name) /\ UNCHANGED <<registry_vars, settings, handlers>>
    ELSE /\ resp' = Resp("skill_execute", header, 401, None)
         /\ UNCHANGED <<registry_vars, settings, queue_vars, handlers>>

\* The agent sends the first command of the installation.
GuardedExecute ==
    /\ next_request = 0
    /\ \E header \in HeaderValues : SkillExecute(header, "tap")

\* The one device of the installation registers.
RegisterFirst == next_device = 0 /\ Register

\* Every operation of the registry, the settings and the skill relay on the
\* one server that holds them.
NextCore ==
    \/ RegisterFirst
    \/ Approve
    \/ Reject
    \/ Clear
    \/ Poll
    \/ GuardedPatch
    \/ GuardedExecute
    \/ TimerFires
    \/ ExecuteTimeout
    \/ ExecuteResult
    \/ ExecuteCancelled
    \/ GetPending
    \/ Claim
    \/ ReportDone
    \/ QueueClear
    \/ GetHistory

SpecCore == InitQueue /\ [][NextCore]_vars

\* C35: a guarded request refused with 401 leaves the registry and its tokens,
\* the settings blob with its revision, and the relay's pending set, waiter
\* table and history as they were before the request.
C35_RefusalChangesNothing ==
    [][resp'.status = 401
       => UNCHANGED <<registry_vars, settings, queue_vars>>]_vars

\* A PATCH /settings refused while a device is approved, the settings have
\* been changed before and a command waits for its result.
C35_Witness ==
    /\ resp.op = "patch_settings"
    /\ resp.status = 401
    /\ \E d \in DOMAIN devices : devices[d].status = "approved"
    /\ settings.revision > 0
    /\ futures # {}
    /\ pending # <<>>

\* C39: the settings revision never decreases, and it changes only in a
\* settings update that changes a recognized field; every other operation
\* (register, approve, reject, registry reset, polls, the relay's operations)
\* leaves the settings blob as it was.
C39_RevisionFrame ==
    [][/\ settings'.revision >= settings.revision
       /\ settings'.revision # settings.revision
          => /\ resp'.op = "patch_settings"
             /\ resp'.status = 200
             /\ \E key \in SettableFields : settings'[key] # settings[key]
       /\ resp'.op # "patch_settings" => settings' = settings]_vars

\* A device was approved and polled for its token after the settings had
\* been changed once: the revision is still the one the update left.
C39_Witness ==
    /\ resp.op = "settings_poll"
    /\ resp.status = 200
    /\ resp.body.auth_token # None
    /\ settings.revision = 1
    /\ history # <<>>
====
